---- MODULE Spec2Model ----
(***************************************************************************)
(* A model of dataikuapi/dss/project.py: the DSSProject handle, its        *)
(* operations, the transport they call and the remote DSS instance.        *)
(*                                                                         *)
(* A Python program is single threaded: one call through a handle runs at  *)
(* a time ("call"), and every request it makes is appended to the          *)
(* transport's log together with the answer the remote gave.               *)
(***************************************************************************)
EXTENDS Integers, Sequences, FiniteSets, TLC

(***************************************************************************)
(* Bounds and input domains.                                               *)
(***************************************************************************)
\* Requests a run makes at most: of Spec, of SpecHandles, of SpecExport, of
\* SpecStream and of SpecRace.
MaxRequests == 1
MaxHandleRequests == 2
MaxExportRequests == 1
MaxStreamRequests == 2
MaxRaceRequests == 4
\* Chunks the remote delivers at most in one export stream.
MaxChunks == 2

Clients == {"client1", "client2"}
ProjectKeys == {"P1", "P2"}
\* What the transport raises for a non-2xx answer.
Errors == {"HTTP 404", "HTTP 500"}
DatasetNames == {"ds_a", "ds_b"}
DatasetTypes == {"Filesystem", "SQL"}
FolderNames == {"fold_a", "fold_b"}
\* Identifiers given to get_dataset, get_managed_folder, get_job, ...
Ids == {"X1", "X2"}
FilePaths == {"/tmp/new.zip", "/tmp/old.zip"}
Tags == {"ta", "tb"}
Groups == {"ga", "gb"}

\* Python's None.
None == [none |-> TRUE]
\* Python's {} (the default of params and formatParams).
EmptyDict == [empty |-> TRUE]

\* chunk_size of iter_content: a delivered chunk is never longer.
chunk_size == 10000
\* The bytes of a chunk: LF (10) and "P" (80).
Bytes == {10, 80}
Chunks == {<<>>} \cup {<<b>> : b \in Bytes}

RECURSIVE SeqsUpTo(_, _)
SeqsUpTo(S, n) ==
    IF n = 0 THEN {<<>>}
    ELSE LET shorter == SeqsUpTo(S, n - 1)
         IN shorter \cup {Append(s, x) : s \in {t \in shorter : Len(t) = n - 1}, x \in S}

\* The bodies an export answer can have: the chunks iter_content yields.
ExportStreams == {s \in SeqsUpTo(Chunks, MaxChunks) : \A i \in 1..Len(s) : Len(s[i]) <= chunk_size}

RECURSIVE Concat(_)
Concat(chunks) == IF chunks = <<>> THEN <<>> ELSE Head(chunks) \o Concat(Tail(chunks))

\* The metadata and permissions dictionaries of a project.
MetadataDicts == {[label |-> "project", tags |-> t] : t \in SUBSET Tags}
PermissionsDicts == {[owner |-> "admin", permissions |-> g] : g \in SUBSET Groups}
\* Job definitions given to start_job.
JobDefinitions == {[type |-> "RECURSIVE_BUILD", outputs |-> <<"ds_a">>],
                   [type |-> "NON_RECURSIVE_FORCED_BUILD", outputs |-> <<"ds_a", "ds_b">>]}

VARIABLES
    project,    \* handle -> [client, project_key]: the fields __init__ sets
    platform,   \* the operating system the interpreter runs on
    remote,     \* project key -> [metadata, permissions]: the DSS instance
    log,        \* the exchanges the transport made, oldest first
    stream,     \* client -> the streaming response body it last returned
    disk,       \* path -> [exists, data]
    file,       \* the file object f of export_to_file
    held,       \* handle -> the dictionaries its caller got from get_metadata / get_permissions
    call        \* the call in progress, or the last one that ended

vars == <<project, platform, remote, log, stream, disk, file, held, call>>

Handles == DOMAIN project

(***************************************************************************)
(* How a call ends.                                                        *)
(***************************************************************************)
Returned(v) == [kind |-> "returned", value |-> v]
Raised(e) == [kind |-> "raised", value |-> [error |-> e]]
Running(at) == [kind |-> "running", value |-> [at |-> at]]

Call(h, op, args, outcome) ==
    [h |-> h, op |-> op, args |-> args, mark |-> Len(log), outcome |-> outcome]

\* No call is in progress: the next one may start.
Idle == call.outcome.kind # "running"

(***************************************************************************)
(* The handles the operations return: the constructor's arguments in       *)
(* order.                                                                  *)
(***************************************************************************)
DSSDataset(client, project_key, dataset_name) ==
    [class |-> "DSSDataset", args |-> <<client, project_key, dataset_name>>]
DSSManagedFolder(client, project_key, odb_id) ==
    [class |-> "DSSManagedFolder", args |-> <<client, project_key, odb_id>>]
DSSJob(client, project_key, id) ==
    [class |-> "DSSJob", args |-> <<client, project_key, id>>]
DSSScenario(client, project_key, scenario_id) ==
    [class |-> "DSSScenario", args |-> <<client, project_key, scenario_id>>]
DSSAPIService(client, project_key, service_id) ==
    [class |-> "DSSAPIService", args |-> <<client, project_key, service_id>>]

(***************************************************************************)
(* "/projects/%s<suffix>" % project_key                                    *)
(***************************************************************************)
ProjectPath(project_key, suffix) == <<"/projects/", project_key, suffix>>

(***************************************************************************)
(* The transport (the client's _perform_json, _perform_empty and           *)
(* _perform_raw) and the remote instance.                                  *)
(***************************************************************************)
Ok(body) == [status |-> "ok", body |-> body]
\* A non-2xx answer; its body (nobody) is never decoded.
Failures(nobody) == {[status |-> e, body |-> nobody] : e \in Errors}

\* What the log keeps of a request: a streamed answer's body is not read by
\* the transport, it stays in the response object.
Exchange(client, method, path, body, resp, streamed) ==
    [client |-> client, method |-> method, path |-> path, body |-> body,
     status |-> resp.status, response |-> IF streamed THEN None ELSE resp.body]

\* A PUT the remote accepts replaces the dictionary wholesale.
RemoteAfter(method, path, body, resp) ==
    IF method = "PUT" /\ resp.status = "ok"
    THEN IF path[3] = "/metadata"
         THEN [remote EXCEPT ![path[2]].metadata = body]
         ELSE [remote EXCEPT ![path[2]].permissions = body]
    ELSE remote

\* One request on the client's transport, answered by resp.
_perform_http(client, method, path, body, resp, streamed) ==
    /\ log' = Append(log, Exchange(client, method, path, body, resp, streamed))
    /\ remote' = RemoteAfter(method, path, body, resp)

\* _perform_json: the decoded answer, or the transport's error raised.
_perform_json(resp) ==
    IF resp.status = "ok" THEN Returned(resp.body) ELSE Raised(resp.status)

\* _perform_empty: nothing, or the transport's error raised.
_perform_empty(resp) ==
    IF resp.status = "ok" THEN Returned(None) ELSE Raised(resp.status)

\* _perform_raw: the response object, its body unread, or the error raised.
_perform_raw(resp) ==
    IF resp.status = "ok" THEN Returned(resp.body) ELSE Raised(resp.status)

\* The response object a successful _perform_raw hands over.
\* body: the chunks of the answer; chunks: those not read yet.
OpenStream(body, via) == [state |-> "open", body |-> body, chunks |-> body, via |-> via]
NoStream == [state |-> "none", body |-> <<>>, chunks |-> <<>>, via |-> "none"]

\* The answers of the remote to each kind of request.
EmptyResponses == {Ok(None)} \cup Failures(None)
MetadataResponses(project_key) == {Ok(remote[project_key].metadata)} \cup Failures(None)
PermissionsResponses(project_key) == {Ok(remote[project_key].permissions)} \cup Failures(None)
ListResponses == {Ok(<<>>), Ok(<<[name |-> "item"]>>)} \cup Failures(<<>>)
ExportResponses == {Ok(s) : s \in ExportStreams} \cup Failures(<<>>)
\* The created object, with its generated id or (a malformed answer) without.
CreatedResponses ==
    {Ok([id |-> i]) : i \in {"G1", "G2"}} \cup {Ok([name |-> "noid"])} \cup Failures(None)

(***************************************************************************)
(* open(path, 'w'): a text-mode file. Python 2 hands the mode to the C     *)
(* library: on POSIX the bytes written reach the file as they are, on      *)
(* Windows every LF is written as CR LF.                                   *)
(***************************************************************************)
Platforms == {"posix", "windows"}

RECURSIVE TextModeWrite(_, _)
TextModeWrite(os, bytes) ==
    IF bytes = <<>> THEN <<>>
    ELSE (IF os = "windows" /\ Head(bytes) = 10 THEN <<13, 10>> ELSE <<Head(bytes)>>)
         \o TextModeWrite(os, Tail(bytes))

NoFile == [path |-> "", state |-> "none"]

(***************************************************************************)
(* DSSProject.                                                             *)
(***************************************************************************)
\* __init__(client, project_key)
DSSProject(client, project_key) == [client |-> client, project_key |-> project_key]

delete(h, resp) ==
    LET self == project[h]
    IN /\ Idle
       /\ _perform_http(self.client, "DELETE", ProjectPath(self.project_key, ""), None, resp, FALSE)
       /\ call' = Call(h, "delete", <<>>, _perform_empty(resp))
       /\ UNCHANGED <<project, platform, stream, disk, file, held>>

\* The .raw of the response: the stream is handed over unread and open.
get_export_stream(h, resp) ==
    LET self == project[h]
        got == _perform_raw(resp)
    IN /\ Idle
       /\ _perform_http(self.client, "GET", ProjectPath(self.project_key, "/export"), None, resp, TRUE)
       /\ stream' = IF got.kind = "returned"
                    THEN [stream EXCEPT ![self.client] = OpenStream(got.value, "get_export_stream")]
                    ELSE stream
       /\ call' = Call(h, "get_export_stream", <<>>,
                       IF got.kind = "returned"
                       THEN Returned([raw_of |-> self.client])
                       ELSE got)
       /\ UNCHANGED <<project, platform, disk, file, held>>

\* with open(path, 'w') as f: the file is created or truncated, or open raises.
export_to_file_open(h, path, opened) ==
    /\ Idle
    /\ IF opened
       THEN /\ disk' = [disk EXCEPT ![path] = [exists |-> TRUE, data |-> <<>>]]
            /\ file' = [path |-> path, state |-> "open"]
            /\ call' = Call(h, "export_to_file", <<path>>, Running("perform_raw"))
       ELSE /\ call' = Call(h, "export_to_file", <<path>>, Raised("IOError"))
            /\ UNCHANGED <<disk, file>>
    /\ UNCHANGED <<project, platform, remote, log, stream, held>>

\* export_stream = self.client._perform_raw(...); an error leaves the with block.
export_to_file_perform_raw(resp) ==
    LET self == project[call.h]
        got == _perform_raw(resp)
    IN /\ call.op = "export_to_file"
       /\ call.outcome = Running("perform_raw")
       /\ _perform_http(self.client, "GET", ProjectPath(self.project_key, "/export"), None, resp, TRUE)
       /\ IF got.kind = "returned"
          THEN /\ stream' = [stream EXCEPT ![self.client] = OpenStream(got.value, "export_to_file")]
               /\ call' = [call EXCEPT !.outcome = Running("iter_content")]
               /\ UNCHANGED file
          ELSE /\ file' = [file EXCEPT !.state = "closed"]
               /\ call' = [call EXCEPT !.outcome = got]
               /\ UNCHANGED stream
       /\ UNCHANGED <<project, platform, disk, held>>

\* export_to_file_chunk, were every turn of the loop to ask for the export again.
export_to_file_chunk_refetch(written) ==
    LET self == project[call.h]
        s == stream[self.client]
        chunk == Head(s.chunks)
    IN /\ call.op = "export_to_file"
       /\ call.outcome = Running("iter_content")
       /\ _perform_http(self.client, "GET", ProjectPath(self.project_key, "/export"), None,
                        Ok(s.body), TRUE)
       /\ IF s.chunks = <<>>
          THEN /\ written
               /\ file' = [file EXCEPT !.state = "closed"]
               /\ call' = [call EXCEPT !.outcome = Returned(None)]
               /\ UNCHANGED <<stream, disk>>
          ELSE /\ stream' = [stream EXCEPT ![self.client].chunks = Tail(s.chunks)]
               /\ IF chunk = <<>>
                  THEN /\ written
                       /\ UNCHANGED <<disk, file, call>>
                  ELSE IF written
                       THEN /\ disk' = [disk EXCEPT ![file.path].data =
                                            @ \o TextModeWrite(platform, chunk)]
                            /\ UNCHANGED <<file, call>>
                       ELSE /\ file' = [file EXCEPT !.state = "closed"]
                            /\ call' = [call EXCEPT !.outcome = Raised("IOError")]
                            /\ UNCHANGED disk
       /\ UNCHANGED <<project, platform, held>>

\* One turn of: for chunk in export_stream.iter_content(chunk_size=10000).
\* The stream at its end leaves the loop and the with block; a chunk that
\* is not empty is written and flushed, or the write raises.
export_to_file_chunk(written) ==
    LET self == project[call.h]
        s == stream[self.client]
        chunk == Head(s.chunks)
    IN /\ call.op = "export_to_file"
       /\ call.outcome = Running("iter_content")
       /\ IF s.chunks = <<>>
          THEN /\ written
               /\ file' = [file EXCEPT !.state = "closed"]
               /\ call' = [call EXCEPT !.outcome = Returned(None)]
               /\ UNCHANGED <<stream, disk>>
          ELSE /\ stream' = [stream EXCEPT ![self.client].chunks = Tail(s.chunks)]
               /\ IF chunk = <<>>
                  THEN /\ written
                       /\ UNCHANGED <<disk, file, call>>
                  ELSE IF written
                       THEN /\ disk' = [disk EXCEPT ![file.path].data =
                                            @ \o TextModeWrite(platform, chunk)]
                            /\ UNCHANGED <<file, call>>
                       ELSE /\ file' = [file EXCEPT !.state = "closed"]
                            /\ call' = [call EXCEPT !.outcome = Raised("IOError")]
                            /\ UNCHANGED disk
       /\ UNCHANGED <<project, platform, remote, log, held>>

\* The caller keeps the dictionary it got (set_metadata is to be given it back).
get_metadata(h, resp) ==
    LET self == project[h]
        got == _perform_json(resp)
    IN /\ Idle
       /\ _perform_http(self.client, "GET", ProjectPath(self.project_key, "/metadata"), None, resp, FALSE)
       /\ call' = Call(h, "get_metadata", <<>>, got)
       /\ held' = IF got.kind = "returned" THEN [held EXCEPT ![h].metadata = got.value] ELSE held
       /\ UNCHANGED <<project, platform, stream, disk, file>>

\* set_metadata, were it to send the PUT again when the first one failed.
set_metadata_retry(h, metadata, resp) ==
    LET self == project[h]
        put == Exchange(self.client, "PUT", ProjectPath(self.project_key, "/metadata"),
                        metadata, resp, FALSE)
    IN /\ Idle
       /\ log' = IF resp.status = "ok" THEN Append(log, put) ELSE Append(Append(log, put), put)
       /\ remote' = RemoteAfter("PUT", ProjectPath(self.project_key, "/metadata"), metadata, resp)
       /\ call' = Call(h, "set_metadata", <<metadata>>, _perform_empty(resp))
       /\ UNCHANGED <<project, platform, stream, disk, file, held>>

set_metadata(h, metadata, resp) ==
    LET self == project[h]
    IN /\ Idle
       /\ _perform_http(self.client, "PUT", ProjectPath(self.project_key, "/metadata"), metadata, resp, FALSE)
       /\ call' = Call(h, "set_metadata", <<metadata>>, _perform_empty(resp))
       /\ UNCHANGED <<project, platform, stream, disk, file, held>>

get_permissions(h, resp) ==
    LET self == project[h]
        got == _perform_json(resp)
    IN /\ Idle
       /\ _perform_http(self.client, "GET", ProjectPath(self.project_key, "/permissions"), None, resp, FALSE)
       /\ call' = Call(h, "get_permissions", <<>>, got)
       /\ held' = IF got.kind = "returned" THEN [held EXCEPT ![h].permissions = got.value] ELSE held
       /\ UNCHANGED <<project, platform, stream, disk, file>>

\* set_permissions, were it to refuse a dictionary the remote no longer holds.
set_permissions_checked(h, permissions, resp) ==
    LET self == project[h]
        stale == remote[self.project_key].permissions # held[h].permissions
    IN /\ Idle
       /\ IF stale
          THEN UNCHANGED <<log, remote>>
          ELSE _perform_http(self.client, "PUT", ProjectPath(self.project_key, "/permissions"),
                             permissions, resp, FALSE)
       /\ call' = Call(h, "set_permissions", <<permissions>>,
                       IF stale THEN Raised("Conflict") ELSE _perform_empty(resp))
       /\ UNCHANGED <<project, platform, stream, disk, file, held>>

set_permissions(h, permissions, resp) ==
    LET self == project[h]
    IN /\ Idle
       /\ _perform_http(self.client, "PUT", ProjectPath(self.project_key, "/permissions"), permissions, resp, FALSE)
       /\ call' = Call(h, "set_permissions", <<permissions>>, _perform_empty(resp))
       /\ UNCHANGED <<project, platform, stream, disk, file, held>>

\* The five list_* operations differ by their path alone.
list_path(h, op, suffix, resp) ==
    LET self == project[h]
    IN /\ Idle
       /\ _perform_http(self.client, "GET", ProjectPath(self.project_key, suffix), None, resp, FALSE)
       /\ call' = Call(h, op, <<>>, _perform_json(resp))
       /\ UNCHANGED <<project, platform, stream, disk, file, held>>

list_datasets(h, resp) == list_path(h, "list_datasets", "/datasets/", resp)
list_managed_folders(h, resp) == list_path(h, "list_managed_folders", "/managedfolders/", resp)
list_jobs(h, resp) == list_path(h, "list_jobs", "/jobs/", resp)
list_api_services(h, resp) == list_path(h, "list_api_services", "/apiservices/", resp)
list_scenarios(h, resp) == list_path(h, "list_scenarios", "/scenarios/", resp)

\* The get_* operations build a handle and call nothing.
get_dataset(h, dataset_name) ==
    LET self == project[h]
    IN /\ Idle
       /\ call' = Call(h, "get_dataset", <<dataset_name>>,
                       Returned(DSSDataset(self.client, self.project_key, dataset_name)))
       /\ UNCHANGED <<project, platform, remote, log, stream, disk, file, held>>

get_managed_folder(h, odb_id) ==
    LET self == project[h]
    IN /\ Idle
       /\ call' = Call(h, "get_managed_folder", <<odb_id>>,
                       Returned(DSSManagedFolder(self.client, self.project_key, odb_id)))
       /\ UNCHANGED <<project, platform, remote, log, stream, disk, file, held>>

\* get_job, were it to look the job up before building the handle.
get_job_checked(h, id) ==
    LET self == project[h]
    IN /\ Idle
       /\ _perform_http(self.client, "GET", ProjectPath(self.project_key, "/jobs/"), None,
                        Ok(<<>>), FALSE)
       /\ call' = Call(h, "get_job", <<id>>,
                       Returned(DSSJob(self.client, self.project_key, id)))
       /\ UNCHANGED <<project, platform, stream, disk, file, held>>

get_job(h, id) ==
    LET self == project[h]
    IN /\ Idle
       /\ call' = Call(h, "get_job", <<id>>,
                       Returned(DSSJob(self.client, self.project_key, id)))
       /\ UNCHANGED <<project, platform, remote, log, stream, disk, file, held>>

get_api_service(h, service_id) ==
    LET self == project[h]
    IN /\ Idle
       /\ call' = Call(h, "get_api_service", <<service_id>>,
                       Returned(DSSAPIService(self.client, self.project_key, service_id)))
       /\ UNCHANGED <<project, platform, remote, log, stream, disk, file, held>>

get_scenario(h, scenario_id) ==
    LET self == project[h]
    IN /\ Idle
       /\ call' = Call(h, "get_scenario", <<scenario_id>>,
                       Returned(DSSScenario(self.client, self.project_key, scenario_id)))
       /\ UNCHANGED <<project, platform, remote, log, stream, disk, file, held>>

\* The defaults of create_dataset: params={}, formatType=None, formatParams={}.
DefaultOptions == [params |-> EmptyDict, formatType |-> None, formatParams |-> EmptyDict]
DatasetOptions ==
    {DefaultOptions,
     [params |-> [connection |-> "fs"], formatType |-> [str |-> "csv"],
      formatParams |-> [separator |-> ","]]}

\* create_dataset, were the handle to take the name the answer gives.
create_dataset_named_by_answer(h, dataset_name, type, options, resp) ==
    LET self == project[h]
        obj == [name |-> dataset_name, projectKey |-> self.project_key, type |-> type,
                params |-> options.params, formatType |-> options.formatType,
                formatParams |-> options.formatParams]
        got == _perform_json(resp)
    IN /\ Idle
       /\ _perform_http(self.client, "POST", ProjectPath(self.project_key, "/datasets/"), obj, resp, FALSE)
       /\ call' = Call(h, "create_dataset", <<dataset_name, type, options>>,
                       IF got.kind # "returned" THEN got
                       ELSE IF "name" \in DOMAIN got.value
                       THEN Returned(DSSDataset(self.client, self.project_key, got.value.name))
                       ELSE Returned(DSSDataset(self.client, self.project_key, dataset_name)))
       /\ UNCHANGED <<project, platform, stream, disk, file, held>>

\* The answer is not read: the handle carries the name that was asked for.
create_dataset(h, dataset_name, type, options, resp) ==
    LET self == project[h]
        obj == [name |-> dataset_name, projectKey |-> self.project_key, type |-> type,
                params |-> options.params, formatType |-> options.formatType,
                formatParams |-> options.formatParams]
        got == _perform_json(resp)
    IN /\ Idle
       /\ _perform_http(self.client, "POST", ProjectPath(self.project_key, "/datasets/"), obj, resp, FALSE)
       /\ call' = Call(h, "create_dataset", <<dataset_name, type, options>>,
                       IF got.kind = "returned"
                       THEN Returned(DSSDataset(self.client, self.project_key, dataset_name))
                       ELSE got)
       /\ UNCHANGED <<project, platform, stream, disk, file, held>>

\* create_managed_folder, were the handle to take the name that was asked for.
create_managed_folder_by_name(h, name, resp) ==
    LET self == project[h]
        obj == [name |-> name, projectKey |-> self.project_key]
        res == _perform_json(resp)
    IN /\ Idle
       /\ _perform_http(self.client, "POST", ProjectPath(self.project_key, "/managedfolders/"), obj, resp, FALSE)
       /\ call' = Call(h, "create_managed_folder", <<name>>,
                       IF res.kind # "returned" THEN res
                       ELSE IF "id" \notin DOMAIN res.value THEN Raised("KeyError")
                       ELSE Returned(DSSManagedFolder(self.client, self.project_key, name)))
       /\ UNCHANGED <<project, platform, stream, disk, file, held>>

\* odb_id = res['id']: an answer without the key raises KeyError.
create_managed_folder(h, name, resp) ==
    LET self == project[h]
        obj == [name |-> name, projectKey |-> self.project_key]
        res == _perform_json(resp)
    IN /\ Idle
       /\ _perform_http(self.client, "POST", ProjectPath(self.project_key, "/managedfolders/"), obj, resp, FALSE)
       /\ call' = Call(h, "create_managed_folder", <<name>>,
                       IF res.kind # "returned" THEN res
                       ELSE IF "id" \notin DOMAIN res.value THEN Raised("KeyError")
                       ELSE Returned(DSSManagedFolder(self.client, self.project_key, res.value.id)))
       /\ UNCHANGED <<project, platform, stream, disk, file, held>>

\* start_job, were it to put the project key into the body as the create_* do.
start_job_with_key(h, definition, resp) ==
    LET self == project[h]
        obj == [k \in DOMAIN definition \cup {"projectKey"} |->
                   IF k = "projectKey" THEN self.project_key ELSE definition[k]]
        job_def == _perform_json(resp)
    IN /\ Idle
       /\ _perform_http(self.client, "POST", ProjectPath(self.project_key, "/jobs/"), obj, resp, FALSE)
       /\ call' = Call(h, "start_job", <<definition>>,
                       IF job_def.kind # "returned" THEN job_def
                       ELSE IF "id" \notin DOMAIN job_def.value THEN Raised("KeyError")
                       ELSE Returned(DSSJob(self.client, self.project_key, job_def.value.id)))
       /\ UNCHANGED <<project, platform, stream, disk, file, held>>

\* start_job, were a failed POST to be swallowed and a handle returned all the same.
start_job_swallow(h, definition, resp) ==
    LET self == project[h]
        job_def == _perform_json(resp)
    IN /\ Idle
       /\ _perform_http(self.client, "POST", ProjectPath(self.project_key, "/jobs/"), definition, resp, FALSE)
       /\ call' = Call(h, "start_job", <<definition>>,
                       IF job_def.kind # "returned"
                       THEN Returned(DSSJob(self.client, self.project_key, "unknown"))
                       ELSE IF "id" \notin DOMAIN job_def.value THEN Raised("KeyError")
                       ELSE Returned(DSSJob(self.client, self.project_key, job_def.value.id)))
       /\ UNCHANGED <<project, platform, stream, disk, file, held>>

start_job(h, definition, resp) ==
    LET self == project[h]
        job_def == _perform_json(resp)
    IN /\ Idle
       /\ _perform_http(self.client, "POST", ProjectPath(self.project_key, "/jobs/"), definition, resp, FALSE)
       /\ call' = Call(h, "start_job", <<definition>>,
                       IF job_def.kind # "returned" THEN job_def
                       ELSE IF "id" \notin DOMAIN job_def.value THEN Raised("KeyError")
                       ELSE Returned(DSSJob(self.client, self.project_key, job_def.value.id)))
       /\ UNCHANGED <<project, platform, stream, disk, file, held>>

(***************************************************************************)
(* The caller of get_export_stream reads the stream it was given, or       *)
(* closes it.                                                              *)
(***************************************************************************)
raw_read(client) ==
    /\ Idle
    /\ stream[client].state = "open"
    /\ stream[client].via = "get_export_stream"
    /\ stream[client].chunks # <<>>
    /\ stream' = [stream EXCEPT ![client].chunks = Tail(@)]
    /\ UNCHANGED <<project, platform, remote, log, disk, file, held, call>>

raw_close(client) ==
    /\ Idle
    /\ stream[client].state = "open"
    /\ stream[client].via = "get_export_stream"
    /\ stream' = [stream EXCEPT ![client].state = "closed"]
    /\ UNCHANGED <<project, platform, remote, log, disk, file, held, call>>

\* The caller's change to a dictionary it holds: one more tag, one more group.
WithTag(metadata, tag) == [metadata EXCEPT !.tags = @ \cup {tag}]
WithGroup(permissions, group) == [permissions EXCEPT !.permissions = @ \cup {group}]

(***************************************************************************)
(* The initial state: the handles are constructed, nothing was called.     *)
(***************************************************************************)
BaseMetadata == [label |-> "project", tags |-> {}]
BasePermissions == [owner |-> "admin", permissions |-> {}]

InitWith(handles) ==
    /\ project \in [handles -> {DSSProject(c, k) : c \in Clients, k \in ProjectKeys}]
    /\ platform \in Platforms
    /\ remote = [k \in ProjectKeys |-> [metadata |-> BaseMetadata, permissions |-> BasePermissions]]
    /\ log = <<>>
    /\ stream = [c \in Clients |-> NoStream]
    /\ disk = [p \in FilePaths |->
                 IF p = "/tmp/old.zip" THEN [exists |-> TRUE, data |-> <<80, 80>>]
                 ELSE [exists |-> FALSE, data |-> <<>>]]
    /\ file = NoFile
    /\ held = [h \in handles |-> [metadata |-> None, permissions |-> None]]
    /\ call = [h |-> 0, op |-> "none", args |-> <<>>, mark |-> 0, outcome |-> Returned(None)]

(***************************************************************************)
(* Spec: one handle, every operation that calls the transport.             *)
(***************************************************************************)
Init == InitWith({1})

Next ==
    \/ \E h \in Handles, resp \in EmptyResponses :
          Len(log) < MaxRequests /\ delete(h, resp)
    \/ \E h \in Handles, resp \in ExportResponses :
          Len(log) < MaxRequests /\ get_export_stream(h, resp)
    \/ \E h \in Handles, path \in FilePaths, opened \in BOOLEAN :
          Len(log) < MaxRequests /\ export_to_file_open(h, path, opened)
    \/ \E resp \in ExportResponses : export_to_file_perform_raw(resp)
    \/ \E written \in BOOLEAN : export_to_file_chunk(written)
    \/ \E h \in Handles : \E resp \in MetadataResponses(project[h].project_key) :
          Len(log) < MaxRequests /\ get_metadata(h, resp)
    \/ \E h \in Handles, metadata \in MetadataDicts, resp \in EmptyResponses :
          Len(log) < MaxRequests /\ set_metadata(h, metadata, resp)
    \/ \E h \in Handles : \E resp \in PermissionsResponses(project[h].project_key) :
          Len(log) < MaxRequests /\ get_permissions(h, resp)
    \/ \E h \in Handles, permissions \in PermissionsDicts, resp \in EmptyResponses :
          Len(log) < MaxRequests /\ set_permissions(h, permissions, resp)
    \/ \E h \in Handles, resp \in ListResponses :
          Len(log) < MaxRequests /\ list_datasets(h, resp)
    \/ \E h \in Handles, resp \in ListResponses :
          Len(log) < MaxRequests /\ list_managed_folders(h, resp)
    \/ \E h \in Handles, resp \in ListResponses :
          Len(log) < MaxRequests /\ list_jobs(h, resp)
    \/ \E h \in Handles, resp \in ListResponses :
          Len(log) < MaxRequests /\ list_api_services(h, resp)
    \/ \E h \in Handles, resp \in ListResponses :
          Len(log) < MaxRequests /\ list_scenarios(h, resp)
    \/ \E h \in Handles, dataset_name \in DatasetNames, type \in DatasetTypes,
          options \in DatasetOptions, resp \in CreatedResponses :
          Len(log) < MaxRequests /\ create_dataset(h, dataset_name, type, options, resp)
    \/ \E h \in Handles, name \in FolderNames, resp \in CreatedResponses :
          Len(log) < MaxRequests /\ create_managed_folder(h, name, resp)
    \/ \E h \in Handles, definition \in JobDefinitions, resp \in CreatedResponses :
          Len(log) < MaxRequests /\ start_job(h, definition, resp)

Spec == Init /\ [][Next]_vars

(***************************************************************************)
(* SpecHandles: one handle, the get_* operations among requests.           *)
(***************************************************************************)
NextHandles ==
    \/ \E h \in Handles, dataset_name \in DatasetNames : get_dataset(h, dataset_name)
    \/ \E h \in Handles, odb_id \in Ids : get_managed_folder(h, odb_id)
    \/ \E h \in Handles, id \in Ids : get_job(h, id)
    \/ \E h \in Handles, service_id \in Ids : get_api_service(h, service_id)
    \/ \E h \in Handles, scenario_id \in Ids : get_scenario(h, scenario_id)
    \/ \E h \in Handles, resp \in ListResponses :
          Len(log) < MaxHandleRequests /\ list_datasets(h, resp)
    \/ \E h \in Handles, name \in FolderNames, resp \in CreatedResponses :
          Len(log) < MaxHandleRequests /\ create_managed_folder(h, name, resp)

SpecHandles == Init /\ [][NextHandles]_vars

(***************************************************************************)
(* SpecExport: one handle, the export of the project to a file.            *)
(***************************************************************************)
NextExport ==
    \/ \E h \in Handles, path \in FilePaths, opened \in BOOLEAN :
          Len(log) < MaxExportRequests /\ export_to_file_open(h, path, opened)
    \/ \E resp \in ExportResponses : export_to_file_perform_raw(resp)
    \/ \E written \in BOOLEAN : export_to_file_chunk(written)

SpecExport == Init /\ [][NextExport]_vars

(***************************************************************************)
(* SpecStream: two handles, the export stream among other requests.        *)
(***************************************************************************)
\* The streams of SpecStream: what they hold does not matter there.
SampleStreams == {<<>>, <<<<80>>, <<10>>>>}
SampleExportResponses == {Ok(s) : s \in SampleStreams} \cup Failures(<<>>)

InitStream == InitWith({1, 2}) /\ platform = "posix"

NextStream ==
    \/ \E h \in Handles, resp \in SampleExportResponses :
          Len(log) < MaxStreamRequests /\ get_export_stream(h, resp)
    \/ \E client \in Clients : raw_read(client)
    \/ \E client \in Clients : raw_close(client)
    \/ \E h \in Handles, path \in {"/tmp/new.zip"}, opened \in BOOLEAN :
          Len(log) < MaxStreamRequests /\ export_to_file_open(h, path, opened)
    \/ \E resp \in SampleExportResponses : export_to_file_perform_raw(resp)
    \/ \E written \in BOOLEAN : export_to_file_chunk(written)
    \/ \E h \in Handles, resp \in ListResponses :
          Len(log) < MaxStreamRequests /\ list_datasets(h, resp)
    \/ \E h \in Handles, resp \in EmptyResponses :
          Len(log) < MaxStreamRequests /\ delete(h, resp)

SpecStream == InitStream /\ [][NextStream]_vars

(***************************************************************************)
(* SpecRace: two writers on one project. Each gets a dictionary, changes   *)
(* it and sets it back.                                                    *)
(***************************************************************************)
InitRace ==
    /\ InitWith({1, 2})
    /\ platform = "posix"
    /\ project[1].project_key = project[2].project_key

NextRace ==
    \/ \E h \in Handles : \E resp \in MetadataResponses(project[h].project_key) :
          Len(log) < MaxRaceRequests /\ get_metadata(h, resp)
    \/ \E h \in Handles, tag \in Tags, resp \in EmptyResponses :
          /\ Len(log) < MaxRaceRequests
          /\ held[h].metadata # None
          /\ set_metadata(h, WithTag(held[h].metadata, tag), resp)
    \/ \E h \in Handles : \E resp \in PermissionsResponses(project[h].project_key) :
          Len(log) < MaxRaceRequests /\ get_permissions(h, resp)
    \/ \E h \in Handles, group \in Groups, resp \in EmptyResponses :
          /\ Len(log) < MaxRaceRequests
          /\ held[h].permissions # None
          /\ set_permissions(h, WithGroup(held[h].permissions, group), resp)

SpecRace == InitRace /\ [][NextRace]_vars

(***************************************************************************)
(* The claims.                                                             *)
(***************************************************************************)
\* The call has ended.
Finished == call.outcome.kind # "running"
\* The requests of the call: the log grows by nothing else while it runs.
Sent == SubSeq(log, call.mark + 1, Len(log))

\* C1: export_to_file(path) leaves at path the concatenation of the chunks of
\* the stream, in order and byte for byte, when it returns, and the file is
\* closed when it ends, returning or raising.
C1_ExportWritesTheStream ==
    (call.op = "export_to_file" /\ Finished) =>
        /\ file.state # "open"
        /\ call.outcome.kind = "returned" =>
              /\ disk[call.args[1]].exists
              /\ disk[call.args[1]].data = Concat(stream[project[call.h].client].body)

\* C2: a call whose request the transport answered with a failure ends
\* raising that very error: it returns no handle and no dictionary.
C2_FailurePropagates ==
    \A i \in 1..Len(Sent) :
        Sent[i].status # "ok" =>
            /\ call.outcome.kind = "raised"
            /\ call.outcome.value = [error |-> Sent[i].status]

C2_Witness ==
    /\ call.op = "start_job"
    /\ Len(Sent) = 1
    /\ Sent[1].status = "HTTP 404"
    /\ call.outcome.kind = "raised"

\* C3 as claimed: while a stream that get_export_stream returned is open (not
\* closed, not read to its end), no request is made on its client.
C3_NoRequestWhileStreamOpen ==
    [][\A c \in Clients :
          (stream[c].state = "open" /\ stream[c].via = "get_export_stream"
              /\ stream[c].chunks # <<>>)
          => ~(Len(log') > Len(log) /\ log'[Len(log')].client = c)]_vars

\* C3 as amended: get_export_stream makes one request, the GET of the export,
\* and export_to_file, once it has asked for its stream, makes no other
\* request to its end.
C3_OneRequestPerExport ==
    /\ (call.op = "get_export_stream") =>
          /\ Len(Sent) = 1
          /\ Sent[1].client = project[call.h].client
          /\ Sent[1].method = "GET"
          /\ Sent[1].path = <<"/projects/", project[call.h].project_key, "/export">>
    /\ (call.op = "export_to_file" /\ Len(log) > call.mark) =>
          /\ Len(Sent) = 1
          /\ Sent[1].client = project[call.h].client
          /\ Sent[1].method = "GET"
          /\ Sent[1].path = <<"/projects/", project[call.h].project_key, "/export">>

C3_Witness ==
    /\ call.op = "export_to_file"
    /\ call.outcome = Running("iter_content")
    /\ Len(stream[project[call.h].client].chunks) = 1
    /\ Len(stream[project[call.h].client].body) = 2
    /\ \E c \in Clients : stream[c].via = "get_export_stream" /\ stream[c].state = "open"

\* C4: create_dataset(name, type) makes one POST to /projects/{key}/datasets/
\* with the name, the type, the project key and the empty defaults, and when
\* it succeeds returns a dataset handle of the project with the name asked for.
C4_CreateDataset ==
    (call.op = "create_dataset" /\ call.args[3].params = [empty |-> TRUE]
        /\ call.args[3].formatType = [none |-> TRUE]
        /\ call.args[3].formatParams = [empty |-> TRUE]) =>
        /\ Len(Sent) = 1
        /\ Sent[1].client = project[call.h].client
        /\ Sent[1].method = "POST"
        /\ Sent[1].path = <<"/projects/", project[call.h].project_key, "/datasets/">>
        /\ Sent[1].body = [name |-> call.args[1], type |-> call.args[2],
                           projectKey |-> project[call.h].project_key,
                           params |-> [empty |-> TRUE], formatType |-> [none |-> TRUE],
                           formatParams |-> [empty |-> TRUE]]
        /\ Sent[1].status = "ok" =>
              /\ call.outcome.kind = "returned"
              /\ call.outcome.value =
                    [class |-> "DSSDataset",
                     args |-> <<project[call.h].client, project[call.h].project_key, call.args[1]>>]

C4_Witness ==
    /\ call.op = "create_dataset"
    /\ call.args[1] = "ds_a"
    /\ call.args[3].formatType = [none |-> TRUE]
    /\ Sent[1].status = "ok"
    /\ Sent[1].response = [name |-> "noid"]
    /\ call.outcome.kind = "returned"

\* C5: create_managed_folder(name) makes one POST to
\* /projects/{key}/managedfolders/ with {name, projectKey}; the handle it
\* returns carries the id of the answer, not the name.
C5_CreateManagedFolder ==
    (call.op = "create_managed_folder") =>
        /\ Len(Sent) = 1
        /\ Sent[1].client = project[call.h].client
        /\ Sent[1].method = "POST"
        /\ Sent[1].path = <<"/projects/", project[call.h].project_key, "/managedfolders/">>
        /\ Sent[1].body = [name |-> call.args[1], projectKey |-> project[call.h].project_key]
        /\ call.outcome.kind = "returned" =>
              /\ Sent[1].status = "ok"
              /\ call.outcome.value =
                    [class |-> "DSSManagedFolder",
                     args |-> <<project[call.h].client, project[call.h].project_key,
                                Sent[1].response.id>>]

C5_Witness ==
    /\ call.op = "create_managed_folder"
    /\ call.args = <<"fold_a">>
    /\ Sent[1].response = [id |-> "G1"]
    /\ call.outcome.kind = "returned"
    /\ call.outcome.value.args[3] = "G1"

\* C6: start_job(definition) makes one POST to /projects/{key}/jobs/ whose
\* body is the definition as given; the handle it returns carries the id of
\* the answer.
C6_StartJob ==
    (call.op = "start_job") =>
        /\ Len(Sent) = 1
        /\ Sent[1].client = project[call.h].client
        /\ Sent[1].method = "POST"
        /\ Sent[1].path = <<"/projects/", project[call.h].project_key, "/jobs/">>
        /\ Sent[1].body = call.args[1]
        /\ call.outcome.kind = "returned" =>
              /\ Sent[1].status = "ok"
              /\ call.outcome.value =
                    [class |-> "DSSJob",
                     args |-> <<project[call.h].client, project[call.h].project_key,
                                Sent[1].response.id>>]

C6_Witness ==
    /\ call.op = "start_job"
    /\ call.args[1].type = "RECURSIVE_BUILD"
    /\ Sent[1].response = [id |-> "G2"]
    /\ call.outcome.kind = "returned"
    /\ call.outcome.value.args[3] = "G2"

\* C7: set_metadata(d) and set_permissions(d) make one PUT, to
\* /projects/{key}/metadata and /projects/{key}/permissions, with d as the
\* body; a failed PUT is raised to the caller and not sent again.
C7_OnePut ==
    (call.op \in {"set_metadata", "set_permissions"}) =>
        /\ Len(Sent) = 1
        /\ Sent[1].client = project[call.h].client
        /\ Sent[1].method = "PUT"
        /\ Sent[1].path = <<"/projects/", project[call.h].project_key,
                            IF call.op = "set_metadata" THEN "/metadata" ELSE "/permissions">>
        /\ Sent[1].body = call.args[1]
        /\ Sent[1].status # "ok" =>
              /\ call.outcome.kind = "raised"
              /\ call.outcome.value = [error |-> Sent[1].status]

C7_Witness ==
    /\ call.op = "set_metadata"
    /\ call.args[1].tags = {"ta"}
    /\ Sent[1].status = "HTTP 500"
    /\ call.outcome.kind = "raised"
    /\ Len(log) = call.mark + 1

\* C8: get_dataset, get_managed_folder, get_job, get_scenario and
\* get_api_service return a handle of the project handle's client, its
\* project key and the identifier given, and make no request.
HandleClass ==
    [get_dataset |-> "DSSDataset", get_managed_folder |-> "DSSManagedFolder",
     get_job |-> "DSSJob", get_scenario |-> "DSSScenario",
     get_api_service |-> "DSSAPIService"]

C8_HandlesWithoutRequest ==
    (call.op \in DOMAIN HandleClass) =>
        /\ Len(log) = call.mark
        /\ call.outcome.kind = "returned"
        /\ call.outcome.value =
              [class |-> HandleClass[call.op],
               args |-> <<project[call.h].client, project[call.h].project_key, call.args[1]>>]

C8_Witness ==
    /\ call.op = "get_job"
    /\ call.args = <<"X2">>
    /\ Len(log) = MaxHandleRequests
    /\ call.mark = Len(log)
    /\ call.outcome.value.args = <<"client2", "P2", "X2">>

\* C9: nothing protects the check-then-set: a PUT the remote accepts makes
\* the remote dictionary the one the writer sent, whatever was set since the
\* writer got its own, the writer is told of no error, and no request but
\* the PUT is made.
C9_LastPutWins ==
    (call.op \in {"set_metadata", "set_permissions"}) =>
        /\ Len(Sent) = 1
        /\ Sent[1].method = "PUT"
        /\ Sent[1].status = "ok" =>
              /\ call.outcome.kind = "returned"
              /\ call.outcome.value = [none |-> TRUE]
              /\ IF call.op = "set_metadata"
                 THEN remote[project[call.h].project_key].metadata = call.args[1]
                 ELSE remote[project[call.h].project_key].permissions = call.args[1]

\* Two writers got the same permissions, each granted its group and set the
\* result: both PUTs were accepted, and the first writer's group is gone.
C9_Witness ==
    /\ Len(log) = 4
    /\ \A i \in 1..4 : log[i].status = "ok" /\ log[i].path[3] = "/permissions"
    /\ log[1].method = "GET" /\ log[2].method = "GET"
    /\ log[1].client # log[2].client
    /\ log[3].method = "PUT" /\ log[3].client = log[1].client
    /\ log[3].body.permissions = {"ga"}
    /\ log[4].method = "PUT" /\ log[4].client = log[2].client
    /\ log[4].body.permissions = {"gb"}
    /\ call.outcome.kind = "returned"
    /\ remote[project[call.h].project_key].permissions.permissions = {"gb"}

\* C10: when export_to_file ends, returning or raising, the stream it got from
\* the transport is read to its end or closed.
C10_StreamReleased ==
    (call.op = "export_to_file" /\ Finished /\ Len(Sent) = 1 /\ Sent[1].status = "ok") =>
        \/ stream[project[call.h].client].state = "closed"
        \/ stream[project[call.h].client].chunks = <<>>

====
